---- MODULE Spec2Model ----
(***************************************************************************)
(* Model of gcp/check-project-names.py: the wordlist loader                *)
(* (read_project_names), the naming rule of the batch loop, the existence  *)
(* checker (project_exists) and the batch runner (main).                   *)
(*                                                                         *)
(* A Python str is a sequence of one-character strings.  The alphabet is   *)
(* ASCII: letters, digits, '-', '_', '#', blank, tab and newline.          *)
(***************************************************************************)
EXTENDS Integers, Sequences, FiniteSets, TLC

VARIABLES
    pc,             \* position of main(): "init_client", "read", "loop", "sleep", "exit"
    wordlist,       \* args.wordlist
    delay,          \* args.delay, in tenths of a second
    fileStatus,     \* what open()/read of the wordlist does: "ok", "missing", "unreadable"
    fileText,       \* the characters of the wordlist file
    client,         \* main's `client`: "unset" until ProjectsClient() returned, then "ok"
    project_names,  \* the list read_project_names returned
    i,              \* the loop's 1-based index of the candidate being processed
    available,      \* main's list `available`
    taken,          \* main's list `taken`
    calls,          \* history: the client.get_project calls issued, in order
    sleeps,         \* history: the time.sleep calls that returned
    output,         \* history: what was printed, in order
    exitStatus      \* the process exit status, -1 while running

vars == <<pc, wordlist, delay, fileStatus, fileText, client, project_names, i,
          available, taken, calls, sleeps, output, exitStatus>>

-----------------------------------------------------------------------------
(* Characters and the str methods the program uses *)

UpperSeq == <<"A","B","C","D","E","F","G","H","I","J","K","L","M",
              "N","O","P","Q","R","S","T","U","V","W","X","Y","Z">>
LowerSeq == <<"a","b","c","d","e","f","g","h","i","j","k","l","m",
              "n","o","p","q","r","s","t","u","v","w","x","y","z">>
DigitSeq == <<"0","1","2","3","4","5","6","7","8","9">>

Range(s) == {s[k] : k \in DOMAIN s}

Upper == Range(UpperSeq)
Lower == Range(LowerSeq)
Digits == Range(DigitSeq)
Whitespace == {" ", "\t", "\n", "\r"}

\* str.isalpha() of one character
CharIsAlpha(c) == c \in Upper \cup Lower

\* str.isalnum() of one character
CharIsAlnum(c) == CharIsAlpha(c) \/ c \in Digits

\* str.lower() of one character
CharLower(c) ==
    IF c \in Upper THEN LowerSeq[CHOOSE k \in DOMAIN UpperSeq : UpperSeq[k] = c] ELSE c

\* str.lower()
StrLower(s) == [k \in DOMAIN s |-> CharLower(s[k])]

\* str.replace(ch, '')
RemoveChar(s, ch) == SelectSeq(s, LAMBDA c : c # ch)

\* str.isalnum(): at least one character and all of them alphanumeric
IsAlnum(s) == Len(s) > 0 /\ \A k \in DOMAIN s : CharIsAlnum(s[k])

RECURSIVE LStrip(_)
LStrip(s) ==
    IF s # <<>> /\ Head(s) \in Whitespace THEN LStrip(Tail(s)) ELSE s

RECURSIVE RStrip(_)
RStrip(s) ==
    IF s # <<>> /\ s[Len(s)] \in Whitespace THEN RStrip(SubSeq(s, 1, Len(s) - 1)) ELSE s

\* str.strip()
Strip(s) == RStrip(LStrip(s))

\* str.startswith(ch)
StartsWith(s, ch) == Len(s) > 0 /\ s[1] = ch

\* iterating a text file: each line with its newline, the last one as it is
\* (the texts modelled hold no carriage return, which open() would translate)
RECURSIVE FileLines(_)
FileLines(t) ==
    IF t = <<>> THEN <<>>
    ELSE IF \E k \in DOMAIN t : t[k] = "\n"
         THEN LET k == CHOOSE k \in DOMAIN t :
                           t[k] = "\n" /\ \A j \in 1..(k - 1) : t[j] # "\n"
              IN  <<SubSeq(t, 1, k)>> \o FileLines(SubSeq(t, k + 1, Len(t)))
         ELSE <<t>>

RECURSIVE MapStrip(_)
MapStrip(ls) ==
    IF ls = <<>> THEN <<>> ELSE <<Strip(Head(ls))>> \o MapStrip(Tail(ls))

\* mutation of LoadNames: the comment test on the line as read, not trimmed
LoadNamesRawComment(t) ==
    MapStrip(SelectSeq(FileLines(t),
                       LAMBDA line : Strip(line) # <<>> /\ ~StartsWith(line, "#")))

\* the list comprehension of read_project_names
LoadNames(t) ==
    MapStrip(SelectSeq(FileLines(t),
                       LAMBDA line : Strip(line) # <<>> /\ ~StartsWith(Strip(line), "#")))

-----------------------------------------------------------------------------
(* Inputs *)

MaxLines == 3       \* lines of a wordlist file of the batch runs
MaxFileLen == 5     \* characters of a wordlist file of the loader runs
MaxNameLen == 32    \* characters of a candidate of the naming-rule runs

DEFAULT_WORDLIST == "project-names.txt"

\* args.wordlist: the default or a path given on the command line
Wordlists == {DEFAULT_WORDLIST, "my-wordlist.txt"}

\* args.delay (type=float), in tenths of a second: negative, zero, the default 0.2
Delays == {-1, 0, 2}

\* lines of the wordlists of the batch runs: too short, valid, valid with
\* upper-case letters, a comment
WordLines ==
    { <<"a","b">>,
      <<"v","a","l","i","d","-","n","a","m","e","-","1">>,
      <<"A","N","O","T","H","E","R","N","A","M","E">>,
      <<"#"," ","c","o","m","m","e","n","t">> }

RECURSIVE JoinLines(_)
JoinLines(ls) ==
    IF ls = <<>> THEN <<>> ELSE Head(ls) \o <<"\n">> \o JoinLines(Tail(ls))

SeqsUpTo(S, n) == UNION {[1..k -> S] : k \in 0..n}

BatchFiles == {JoinLines(ls) : ls \in SeqsUpTo(WordLines, MaxLines)}

\* characters of the wordlists of the loader runs
FileAlphabet == {"a", "B", "#", " ", "\n"}

ExampleFile ==
    <<"f","o","o","\n","\n","#"," ","c","o","m","m","e","n","t","\n","b","a","r","\n">>

LoaderFiles == SeqsUpTo(FileAlphabet, MaxFileLen) \cup {ExampleFile}

\* candidates of the naming-rule runs: n characters, the first one `first`,
\* the others 'b' but for c, the second or the last one
Candidate(n, first, c, last) ==
    [k \in 1..n |-> IF k = 1 THEN first
                    ELSE IF k = (IF last THEN n ELSE 2) THEN c ELSE "b"]

Candidates ==
    { Candidate(n, first, c, last) :
        n \in 1..MaxNameLen, first \in {"a", "Z", "7", "-", "_"},
        c \in {"b", "Q", "7", "-", "_", " "}, last \in BOOLEAN }

NameFiles == {c \o <<"\n">> : c \in Candidates}

\* the outcomes of client.get_project: it returns, or raises an exception
\* that has a `status` attribute or has none
Outcomes ==
    { [raises |-> FALSE, hasStatus |-> FALSE, status |-> 0],
      [raises |-> TRUE,  hasStatus |-> TRUE,  status |-> 404],
      [raises |-> TRUE,  hasStatus |-> TRUE,  status |-> 403],
      [raises |-> TRUE,  hasStatus |-> TRUE,  status |-> 500],
      [raises |-> TRUE,  hasStatus |-> FALSE, status |-> 0] }

-----------------------------------------------------------------------------
(* The program *)

MinLen == 6
MaxLen == 30

\* one printed line: what it is, the item's position, a number, an identifier, a path
Line(kind, idx, n, text, file) ==
    [kind |-> kind, idx |-> idx, n |-> n, text |-> text, file |-> file]

\* mutation of IsValidName: the upper length bound exclusive
IsValidNameBelowMax(name) ==
    /\ MinLen <= Len(name) /\ Len(name) < MaxLen
    /\ IsAlnum(RemoveChar(name, "-"))
    /\ CharIsAlpha(name[1])

\* the naming rule of the batch loop
IsValidName(name) ==
    /\ MinLen <= Len(name) /\ Len(name) <= MaxLen
    /\ IsAlnum(RemoveChar(name, "-"))
    /\ CharIsAlpha(name[1])

\* mutation of ProjectExists: permission-denied reported as existing
ProjectExistsForbiddenTaken(o) ==
    IF ~o.raises THEN TRUE
    ELSE IF o.hasStatus /\ o.status = 403 THEN TRUE
    ELSE FALSE

\* project_exists: the value returned for an outcome of client.get_project
ProjectExists(o) ==
    IF ~o.raises THEN TRUE
    ELSE IF o.hasStatus /\ o.status \in {404, 403} THEN FALSE
    ELSE FALSE

\* project_exists: what it prints for an outcome of client.get_project
ProjectExistsOutput(o, project_id) ==
    IF o.raises /\ ~(o.hasStatus /\ o.status \in {404, 403})
    THEN <<Line("unexpected_error", 0, 0, project_id, "")>>
    ELSE <<>>

\* read_project_names: the list returned when the file is read
ReadProjectNames(t) == LoadNames(t)

RECURSIVE AvailableLines(_)
AvailableLines(a) ==
    IF a = <<>> THEN <<>>
    ELSE <<Line("available_id", 0, 0, Head(a), "")>> \o AvailableLines(Tail(a))

\* mutation of SummaryOutput: the total counts the looked-up candidates only
SummaryOutputCheckedOnly(names, av, tk) ==
    << Line("summary_total", 0, Len(av) + Len(tk), <<>>, ""),
       Line("summary_available", 0, Len(av), <<>>, ""),
       Line("summary_taken", 0, Len(tk), <<>>, "") >>
    \o (IF av # <<>> THEN <<Line("available_header", 0, 0, <<>>, "")>> \o AvailableLines(av)
        ELSE <<>>)
    \o (IF av = <<>> THEN <<Line("none_available", 0, 0, <<>>, "")>> ELSE <<>>)

\* the summary of main
SummaryOutput(names, av, tk) ==
    << Line("summary_total", 0, Len(names), <<>>, ""),
       Line("summary_available", 0, Len(av), <<>>, ""),
       Line("summary_taken", 0, Len(tk), <<>>, "") >>
    \o (IF av # <<>> THEN <<Line("available_header", 0, 0, <<>>, "")>> \o AvailableLines(av)
        ELSE <<>>)
    \o (IF av = <<>> THEN <<Line("none_available", 0, 0, <<>>, "")>> ELSE <<>>)

\* main, lines 83-89: the client is created, or the run ends with status 1
InitClient ==
    /\ pc = "init_client"
    /\ \E ok \in BOOLEAN :
         IF ok
         THEN /\ pc' = "read"
              /\ client' = "ok"
              /\ UNCHANGED <<output, exitStatus>>
         ELSE /\ pc' = "exit"
              /\ exitStatus' = 1
              /\ UNCHANGED client
              /\ output' = output \o <<Line("client_init_failed", 0, 0, <<>>, "")>>
    /\ UNCHANGED <<wordlist, delay, fileStatus, fileText, project_names, i,
                   available, taken, calls, sleeps>>

\* mutation of ReadNames: no exit for an empty list
ReadNamesNoEmptyExit ==
    /\ pc = "read"
    /\ IF fileStatus = "missing"
       THEN /\ output' = output \o <<Line("file_not_found", 0, 0, <<>>, wordlist)>>
            /\ pc' = "exit"
            /\ exitStatus' = 1
            /\ UNCHANGED <<project_names, i, available, taken>>
       ELSE IF fileStatus = "unreadable"
       THEN /\ output' = output \o <<Line("read_error", 0, 0, <<>>, "")>>
            /\ pc' = "exit"
            /\ exitStatus' = 1
            /\ UNCHANGED <<project_names, i, available, taken>>
       ELSE LET names == ReadProjectNames(fileText)
            IN  /\ project_names' = names
                /\ output' = output \o
                      << Line("loaded", 0, Len(names), <<>>, wordlist),
                         Line("checking", 0, Len(names), <<>>, "") >>
                /\ pc' = "loop"
                /\ i' = 1
                /\ available' = <<>>
                /\ taken' = <<>>
                /\ UNCHANGED exitStatus
    /\ UNCHANGED <<wordlist, delay, fileStatus, fileText, client, calls, sleeps>>

\* mutation of ReadNames: a missing file read as an empty wordlist
ReadNamesMissingAsEmpty ==
    /\ pc = "read"
    /\ IF fileStatus = "unreadable"
       THEN /\ output' = output \o <<Line("read_error", 0, 0, <<>>, "")>>
            /\ pc' = "exit"
            /\ exitStatus' = 1
            /\ UNCHANGED <<project_names, i, available, taken>>
       ELSE LET names == IF fileStatus = "missing" THEN <<>>
                         ELSE ReadProjectNames(fileText)
                loaded == Line("loaded", 0, Len(names), <<>>, wordlist)
            IN  /\ project_names' = names
                /\ IF names = <<>>
                   THEN /\ output' = output \o <<loaded, Line("no_names", 0, 0, <<>>, "")>>
                        /\ pc' = "exit"
                        /\ exitStatus' = 0
                        /\ UNCHANGED <<i, available, taken>>
                   ELSE /\ output' = output \o
                              <<loaded, Line("checking", 0, Len(names), <<>>, "")>>
                        /\ pc' = "loop"
                        /\ i' = 1
                        /\ available' = <<>>
                        /\ taken' = <<>>
                        /\ UNCHANGED exitStatus
    /\ UNCHANGED <<wordlist, delay, fileStatus, fileText, client, calls, sleeps>>

\* main, lines 91-100: read_project_names, the empty-list exit, the two lists
ReadNames ==
    /\ pc = "read"
    /\ IF fileStatus = "missing"
       THEN /\ output' = output \o <<Line("file_not_found", 0, 0, <<>>, wordlist)>>
            /\ pc' = "exit"
            /\ exitStatus' = 1
            /\ UNCHANGED <<project_names, i, available, taken>>
       ELSE IF fileStatus = "unreadable"
       THEN /\ output' = output \o <<Line("read_error", 0, 0, <<>>, "")>>
            /\ pc' = "exit"
            /\ exitStatus' = 1
            /\ UNCHANGED <<project_names, i, available, taken>>
       ELSE LET names == ReadProjectNames(fileText)
                loaded == Line("loaded", 0, Len(names), <<>>, wordlist)
            IN  /\ project_names' = names
                /\ IF names = <<>>
                   THEN /\ output' = output \o <<loaded, Line("no_names", 0, 0, <<>>, "")>>
                        /\ pc' = "exit"
                        /\ exitStatus' = 0
                        /\ UNCHANGED <<i, available, taken>>
                   ELSE /\ output' = output \o
                              <<loaded, Line("checking", 0, Len(names), <<>>, "")>>
                        /\ pc' = "loop"
                        /\ i' = 1
                        /\ available' = <<>>
                        /\ taken' = <<>>
                        /\ UNCHANGED exitStatus
    /\ UNCHANGED <<wordlist, delay, fileStatus, fileText, client, calls, sleeps>>

\* mutation of InvalidStep: no `continue` after the INVALID line, so the
\* candidate is looked up and appended like a valid one
InvalidStepFallsThrough ==
    /\ pc = "loop"
    /\ i <= Len(project_names)
    /\ ~IsValidName(project_names[i])
    /\ \E o \in Outcomes :
         LET id == StrLower(project_names[i])
             exists == ProjectExists(o)
         IN  /\ calls' = Append(calls, [idx |-> i, id |-> id, outcome |-> o])
             /\ output' = output \o
                    <<Line("INVALID", i, Len(project_names), project_names[i], "")>>
                    \o ProjectExistsOutput(o, id) \o
                    <<Line(IF exists THEN "TAKEN" ELSE "AVAILABLE",
                           i, Len(project_names), id, "")>>
             /\ IF ~exists
                THEN available' = Append(available, id) /\ UNCHANGED taken
                ELSE taken' = Append(taken, id) /\ UNCHANGED available
    /\ pc' = "sleep"
    /\ UNCHANGED <<wordlist, delay, fileStatus, fileText, client, project_names, i,
                   sleeps, exitStatus>>

\* main, lines 102-106: a candidate that fails the naming rule
InvalidStep ==
    /\ pc = "loop"
    /\ i <= Len(project_names)
    /\ ~IsValidName(project_names[i])
    /\ output' = output \o <<Line("INVALID", i, Len(project_names), project_names[i], "")>>
    /\ i' = i + 1
    /\ UNCHANGED <<pc, wordlist, delay, fileStatus, fileText, client, project_names,
                   available, taken, calls, sleeps, exitStatus>>

\* main, lines 102-117: a candidate that passes it: the lookup, the printed
\* line, the append
CheckStep ==
    /\ pc = "loop"
    /\ i <= Len(project_names)
    /\ IsValidName(project_names[i])
    /\ \E o \in Outcomes :
         LET id == StrLower(project_names[i])
             exists == ProjectExists(o)
         IN  /\ calls' = Append(calls, [idx |-> i, id |-> id, outcome |-> o])
             /\ output' = output \o ProjectExistsOutput(o, id) \o
                    <<Line(IF exists THEN "TAKEN" ELSE "AVAILABLE",
                           i, Len(project_names), id, "")>>
             /\ IF ~exists
                THEN available' = Append(available, id) /\ UNCHANGED taken
                ELSE taken' = Append(taken, id) /\ UNCHANGED available
    /\ pc' = "sleep"
    /\ UNCHANGED <<wordlist, delay, fileStatus, fileText, client, project_names, i,
                   sleeps, exitStatus>>

\* main, line 119: time.sleep(args.delay) returns, or raises ValueError for a
\* negative delay; nothing catches it and the interpreter exits with status 1
SleepStep ==
    /\ pc = "sleep"
    /\ IF delay < 0
       THEN /\ pc' = "exit"
            /\ exitStatus' = 1
            /\ output' = output \o <<Line("traceback", 0, 0, <<>>, "")>>
            /\ UNCHANGED <<i, sleeps>>
       ELSE /\ sleeps' = Append(sleeps, delay)
            /\ i' = i + 1
            /\ pc' = "loop"
            /\ UNCHANGED <<output, exitStatus>>
    /\ UNCHANGED <<wordlist, delay, fileStatus, fileText, client, project_names,
                   available, taken, calls>>

\* main, lines 121-135: the summary; main returns and the status is 0
Summary ==
    /\ pc = "loop"
    /\ i > Len(project_names)
    /\ output' = output \o SummaryOutput(project_names, available, taken)
    /\ pc' = "exit"
    /\ exitStatus' = 0
    /\ UNCHANGED <<wordlist, delay, fileStatus, fileText, client, project_names, i,
                   available, taken, calls, sleeps>>

\* main, lines 77-81: the arguments are parsed and the banner printed
Start(files) ==
    /\ pc = "init_client"
    /\ wordlist \in Wordlists
    /\ delay \in Delays
    /\ fileStatus \in {"ok", "missing", "unreadable"}
    /\ fileText \in (IF fileStatus = "ok" THEN files ELSE {<<>>})
    /\ client = "unset"
    /\ project_names = <<>>
    /\ i = 0
    /\ available = <<>>
    /\ taken = <<>>
    /\ calls = <<>>
    /\ sleeps = <<>>
    /\ output = <<Line("banner", 0, 0, <<>>, "")>>
    /\ exitStatus = -1

Init == Start(BatchFiles)

Next == InitClient \/ ReadNames \/ InvalidStep \/ CheckStep \/ SleepStep \/ Summary

\* the batch runs: wordlists of whole lines
Spec == Init /\ [][Next]_vars

\* the loader runs: wordlists of every text over FileAlphabet; no line of them
\* is long enough to pass the naming rule, so no lookup and no sleep happens
InitLoader == Start(LoaderFiles)

NextLoader == InitClient \/ ReadNames \/ InvalidStep \/ Summary

SpecLoader == InitLoader /\ [][NextLoader]_vars

\* the naming-rule runs: wordlists of one candidate
InitValidator == Start(NameFiles)

NextValidator == InitClient \/ ReadNames \/ InvalidStep \/ CheckStep \/ SleepStep \/ Summary

SpecValidator == InitValidator /\ [][NextValidator]_vars

-----------------------------------------------------------------------------
(* The statements checked, each in terms of what the run printed, the calls
   it issued and the lists it built *)

Letters == Upper \cup Lower

\* the naming rule, character by character: 6 to 30 characters, each a
\* letter, a digit or a hyphen, the first one a letter
NamingRule(s) ==
    /\ Len(s) >= 6 /\ Len(s) <= 30
    /\ \A k \in DOMAIN s : s[k] \in Letters \cup Digits \cup {"-"}
    /\ s[1] \in Letters

\* the positions of the printed lines of one kind for the item at position idx
LinesOf(kind, idx) ==
    {k \in DOMAIN output : output[k].kind = kind /\ output[k].idx = idx}

HasLine(kind, idx) == LinesOf(kind, idx) # {}

NumLines(kind) == Cardinality({k \in DOMAIN output : output[k].kind = kind})

\* the number a summary line of one kind shows
SummaryN(kind) == output[CHOOSE k \in DOMAIN output : output[k].kind = kind].n

SummaryPrinted == HasLine("summary_total", 0)

CallsFor(k) == {c \in DOMAIN calls : calls[c].idx = k}

ValidPositions == {k \in DOMAIN project_names : NamingRule(project_names[k])}

IdsOf(cs) == [k \in DOMAIN cs |-> cs[k].id]

\* how many of INVALID, AVAILABLE, TAKEN the item at position k was given
Classifications(k) ==
    Cardinality(LinesOf("INVALID", k)) + Cardinality(LinesOf("AVAILABLE", k))
        + Cardinality(LinesOf("TAKEN", k))

\* C1: a candidate that fails the naming rule is never looked up and is
\* never appended to `available` or `taken`: every lookup and every printed
\* AVAILABLE or TAKEN line is for a candidate that passes the rule, and the
\* two lists hold one entry per lookup.
C1_InvalidNeverLookedUp ==
    /\ \A k \in DOMAIN project_names :
         ~NamingRule(project_names[k]) =>
             /\ CallsFor(k) = {}
             /\ ~HasLine("AVAILABLE", k)
             /\ ~HasLine("TAKEN", k)
    /\ Len(available) + Len(taken) = Len(calls)

\* C1 witness: a finished run that skipped an invalid candidate between two
\* candidates it looked up.
C1_Witness ==
    /\ pc = "exit" /\ SummaryPrinted
    /\ Len(project_names) = 3
    /\ ~NamingRule(project_names[2])
    /\ HasLine("INVALID", 2)
    /\ Len(calls) = 2

C4_AlwaysReachesSummary ==
    (client = "ok" /\ project_names # <<>> /\ pc = "exit") =>
        /\ exitStatus = 0
        /\ SummaryPrinted
        /\ i = Len(project_names) + 1

\* C5: in a run that has ended, every valid candidate was looked up exactly
\* once, by its lower-cased form, in wordlist order, so the remote calls
\* number the valid candidates.
C5_OneLookupPerValidCandidate ==
    (pc = "exit" /\ project_names # <<>>) =>
        /\ \A k \in ValidPositions :
             /\ Cardinality(CallsFor(k)) = 1
             /\ \A c \in CallsFor(k) : calls[c].id = StrLower(project_names[k])
        /\ \A c, d \in DOMAIN calls : c < d => calls[c].idx < calls[d].idx
        /\ Len(calls) = Cardinality(ValidPositions)

\* C7: when the loaded wordlist is empty the run prints the "no project names"
\* message and ends with status 0, with no per-item line, no lookup, no
\* sleep and no summary.
C7_EmptyWordlist ==
    (HasLine("loaded", 0) /\ project_names = <<>>) =>
        /\ pc = "exit"
        /\ exitStatus = 0
        /\ output = << Line("banner", 0, 0, <<>>, ""),
                       Line("loaded", 0, 0, <<>>, wordlist),
                       Line("no_names", 0, 0, <<>>, "") >>
        /\ calls = <<>>
        /\ sleeps = <<>>

\* C7 witness: a wordlist of comment lines only was loaded.
C7_Witness ==
    /\ fileText # <<>>
    /\ HasLine("loaded", 0)
    /\ project_names = <<>>
    /\ HasLine("no_names", 0)

\* C8 as stated: when the wordlist file does not exist the run ends with a
\* non-zero status, having printed an error that names the file and having
\* issued no lookup.
C8_MissingFile ==
    (fileStatus = "missing" /\ pc = "exit") =>
        /\ exitStatus # 0
        /\ \E k \in DOMAIN output :
             output[k].kind = "file_not_found" /\ output[k].file = wordlist
        /\ calls = <<>>

\* C8 as amended: when the wordlist file does not exist the run ends with a
\* non-zero status and no lookup; the error that names the file is printed
\* when the client was initialised, and when it was not the run has already
\* ended with the client's error and the file is never opened.
C8_MissingFileAfterClientInit ==
    (fileStatus = "missing" /\ pc = "exit") =>
        /\ exitStatus # 0
        /\ calls = <<>>
        /\ project_names = <<>>
        /\ client = "ok" =>
             output = << Line("banner", 0, 0, <<>>, ""),
                         Line("file_not_found", 0, 0, <<>>, wordlist) >>
        /\ client # "ok" =>
             output = << Line("banner", 0, 0, <<>>, ""),
                         Line("client_init_failed", 0, 0, <<>>, "") >>

\* C8 witness: the client was initialised, a wordlist path given on the
\* command line does not exist, and the run has ended.
C8_Witness ==
    /\ fileStatus = "missing"
    /\ wordlist # DEFAULT_WORDLIST
    /\ client = "ok"
    /\ pc = "exit"
    /\ exitStatus = 1

\* C10: a sleep of the configured delay follows every lookup: between
\* iterations and at the end of the run the sleeps number the lookups, each
\* of the configured delay.
C10_SleepAfterEveryLookup ==
    /\ pc \in {"loop", "exit"} => Len(sleeps) = Len(calls)
    /\ pc = "sleep" => Len(calls) = Len(sleeps) + 1
    /\ \A k \in DOMAIN sleeps : sleeps[k] = delay

\* C6: a candidate is accepted (looked up) if and only if it has 6 to 30
\* characters, its characters other than hyphens are alphanumeric and there
\* is at least one, and its first character, as written, is a letter;
\* otherwise it is reported INVALID.  So a candidate of letters, digits and
\* hyphens with 6 to 30 characters and a letter first is accepted, and one
\* with a length outside 6..30 or a first character that is no letter is
\* rejected.
C6_NamingRuleDecides ==
    (project_names # <<>> /\ ~(pc = "loop" /\ i = 1)) =>
        LET name == project_names[1]
            accepted == CallsFor(1) # {}
            rejected == HasLine("INVALID", 1)
            rest == {k \in DOMAIN name : name[k] # "-"}
        IN  /\ accepted <=> ~rejected
            /\ accepted <=> NamingRule(name)
            /\ accepted <=>
                 /\ Len(name) \in 6..30
                 /\ rest # {} /\ \A k \in rest : name[k] \in Letters \cup Digits
                 /\ name[1] \in Letters
            /\ (Len(name) < 6 \/ Len(name) > 30 \/ name[1] \notin Letters) => rejected

\* C6 witness: a candidate of 30 characters with an upper-case first letter
\* and a hyphen was accepted and the run finished.
C6_Witness ==
    /\ pc = "exit" /\ SummaryPrinted
    /\ Len(project_names) = 1
    /\ Len(project_names[1]) = 30
    /\ project_names[1][1] = "Z"
    /\ \E k \in DOMAIN project_names[1] : project_names[1][k] = "-"
    /\ CallsFor(1) # {}

\* the lines of a text by the positions of its newlines: where each line
\* starts, and what is left of it between its first and its last character
\* that is not whitespace
LineStarts(t) == {b \in DOMAIN t : b = 1 \/ t[b - 1] = "\n"}

LineEnd(t, b) ==
    LET nl == {k \in b..Len(t) : t[k] = "\n"}
    IN  IF nl = {} THEN Len(t) ELSE (CHOOSE k \in nl : \A j \in nl : k <= j) - 1

Trimmed(t, b) ==
    LET body == {k \in b..LineEnd(t, b) : t[k] \notin Whitespace}
    IN  IF body = {} THEN <<>>
        ELSE SubSeq(t, CHOOSE k \in body : \A j \in body : k <= j,
                       CHOOSE k \in body : \A j \in body : k >= j)

KeptLines(t) ==
    {b \in LineStarts(t) : Trimmed(t, b) # <<>> /\ Trimmed(t, b)[1] # "#"}

\* C9: the list read_project_names returns holds, in file order, the trimmed
\* form of each line that is not empty after trimming and whose trimmed
\* form does not start with '#', and nothing else: unchanged in case, with
\* duplicates kept.
C9_LoaderResult ==
    (fileStatus = "ok" /\ HasLine("loaded", 0)) =>
        /\ Len(project_names) = Cardinality(KeptLines(fileText))
        /\ \A b \in KeptLines(fileText) :
             project_names[Cardinality({x \in KeptLines(fileText) : x <= b})]
                 = Trimmed(fileText, b)
        /\ SummaryN("loaded") = Len(project_names)

\* C9 witness: the file "foo\n\n# comment\nbar\n" was loaded as foo, bar.
C9_Witness ==
    /\ fileText = ExampleFile
    /\ HasLine("loaded", 0)
    /\ project_names = << <<"f","o","o">>, <<"b","a","r">> >>

====
